---- MODULE Spec2Model ----
(***************************************************************************)
(* Model of genblastA_to_gff3.py: the generator parse_genblastA, the       *)
(* emitter write_gff_line and the driver loop that alternates them.        *)
(*                                                                         *)
(* A line of the input is a record: `kind` says which of the parser's      *)
(* tests the text passes (startswith START_STR, startswith END_STR,        *)
(* startswith QUERY_NAME_STR, 'gene cover' in line, startswith HSP_STR),   *)
(* and the other fields carry what line.split() or the regular expression  *)
(* extracts from it.  A line that contains 'gene cover' also says whether  *)
(* its text begins with START_STR (`starts`): such a line passes two of    *)
(* the tests.  `shape` says that the text around the numeric groups fits   *)
(* the regular expression of the line.                                     *)
(*                                                                         *)
(* The groups the code hands to int() and float() are kept as their text,  *)
(* the sequence of the code points of its characters, and both             *)
(* conversions are computed from the text.  A digit is any decimal digit   *)
(* of Unicode, as it is for \d, int() and float().  int() gives a whole    *)
(* number of any size and raises ValueError on more than 4300 digits;      *)
(* float() gives the nearest binary64 number and raises ValueError on      *)
(* '1.2.3'.  The sum and the division of write_gff_line round to binary64  *)
(* after each operation, and the comparisons are exact.                    *)
(*                                                                         *)
(* Every object the parser creates (a regex match, an hsp dict) carries    *)
(* `lineno`, the number of the input line it was created from, as its      *)
(* identity.                                                               *)
(***************************************************************************)
EXTENDS Integers, Sequences, FiniteSets

VARIABLES
    lines,          \* the input lines read so far by `for line in input_filename`
    in_record,      \* parse_genblastA local
    hsp_dict,       \* parse_genblastA local
    genomic_match,  \* parse_genblastA local
    query_name,     \* parse_genblastA local
    pc,             \* where control is: "read", "yield", "resume", "done", "crashed"
    exception,      \* the uncaught exception that ended the run, "None" if there is none
    cur,            \* the record handed to the driver by the pending yield
    yielded,        \* every record yielded so far, in order
    out,            \* the feature lines written to args.gff_file after the header
    args,           \* the parsed command line thresholds
    count           \* how many lines of each role the input read so far has

vars == <<lines, in_record, hsp_dict, genomic_match, query_name, pc, exception, cur, yielded,
          out, args, count>>

----------------------------------------------------------------------------
(* Bounds of the explored inputs *)

MaxLines == 4
MaxLongLines == 7
MaxIgnored == 1
MaxMalformed == 1
MaxHspLines == 2
MaxQueries == 1
MaxStartGeneCover == 2

----------------------------------------------------------------------------
\* what an exception is when it is the outcome of an expression
ValueError == [kind |-> "ValueError"]

(* Whole numbers: the values of int() *)

\* A Python int that is not negative is written in base 2^15: the sequence of
\* its digits (limbs), the least significant first, without a leading zero;
\* zero is << >> and 100 is <<100>>.
LimbBits == 15
Base == 32768

LimbAt(a, i) == IF i \in DOMAIN a THEN a[i] ELSE 0

RECURSIVE Trim(_)
Trim(a) == IF a = << >> \/ a[Len(a)] # 0 THEN a ELSE Trim(SubSeq(a, 1, Len(a) - 1))

RECURSIVE FromNat(_)
FromNat(n) == IF n = 0 THEN << >> ELSE <<n % Base>> \o FromNat(n \div Base)

RECURSIVE AddFrom(_, _, _, _)
AddFrom(a, b, i, carry) ==
    IF i > Len(a) /\ i > Len(b)
    THEN (IF carry = 1 THEN <<1>> ELSE << >>)
    ELSE LET s == LimbAt(a, i) + LimbAt(b, i) + carry
         IN  IF s >= Base THEN <<s - Base>> \o AddFrom(a, b, i + 1, 1)
             ELSE <<s>> \o AddFrom(a, b, i + 1, 0)

\* a + b
Add(a, b) == AddFrom(a, b, 1, 0)

RECURSIVE SubFrom(_, _, _, _)
SubFrom(a, b, i, borrow) ==
    IF i > Len(a) THEN << >>
    ELSE LET s == a[i] - LimbAt(b, i) - borrow
         IN  IF s < 0 THEN <<s + Base>> \o SubFrom(a, b, i + 1, 1)
             ELSE <<s>> \o SubFrom(a, b, i + 1, 0)

\* a - b, for a >= b
Sub(a, b) == Trim(SubFrom(a, b, 1, 0))

RECURSIVE CmpFrom(_, _, _)
CmpFrom(a, b, i) ==
    IF i = 0 THEN 0
    ELSE IF a[i] = b[i] THEN CmpFrom(a, b, i - 1)
    ELSE IF a[i] > b[i] THEN 1 ELSE -1

\* -1, 0 or 1 as a < b, a = b or a > b
Cmp(a, b) ==
    IF Len(a) # Len(b) THEN (IF Len(a) > Len(b) THEN 1 ELSE -1)
    ELSE CmpFrom(a, b, Len(a))

RECURSIVE MulFrom(_, _, _, _)
MulFrom(a, c, i, carry) ==
    IF i > Len(a)
    THEN (IF carry > 0 THEN <<carry>> ELSE << >>)
    ELSE LET p == a[i] * c + carry
         IN  <<p % Base>> \o MulFrom(a, c, i + 1, p \div Base)

\* a * c + d, for small numbers 0 < c < Base and d < Base
MulAdd(a, c, d) == MulFrom(a, c, 1, d)

\* the quotient and the remainder of the division by n of the digits i down
\* to 1 of a, with rem carried in from the digits above
RECURSIVE DivFrom(_, _, _, _)
DivFrom(a, n, i, rem) ==
    IF i = 0 THEN [quot |-> << >>, rem |-> rem]
    ELSE LET r == rem * Base + a[i]
             below == DivFrom(a, n, i - 1, r % n)
         IN  [quot |-> Append(below.quot, r \div n), rem |-> below.rem]

\* a \div n and a % n, for a small number 0 < n <= Base
DivMod(a, n) ==
    LET d == DivFrom(a, n, Len(a), 0)
    IN  [quot |-> Trim(d.quot), rem |-> d.rem]

\* a * 2^k
Shl(a, k) ==
    IF a = << >> THEN a
    ELSE [i \in 1..(k \div LimbBits) |-> 0] \o MulAdd(a, 2^(k % LimbBits), 0)

\* a \div 2^k
Shr(a, k) ==
    IF k \div LimbBits >= Len(a) THEN << >>
    ELSE DivMod(SubSeq(a, k \div LimbBits + 1, Len(a)), 2^(k % LimbBits)).quot

\* a % 2^k # 0
Sticky(a, k) ==
    \/ \E i \in DOMAIN a : i <= k \div LimbBits /\ a[i] # 0
    \/ LimbAt(a, k \div LimbBits + 1) % 2^(k % LimbBits) # 0

\* the binary digit of a that counts 2^k
BitAt(a, k) == (LimbAt(a, k \div LimbBits + 1) \div 2^(k % LimbBits)) % 2

RECURSIVE SmallBitLen(_)
SmallBitLen(n) == IF n = 0 THEN 0 ELSE 1 + SmallBitLen(n \div 2)

\* the number of binary digits of a
BitLen(a) == IF a = << >> THEN 0 ELSE LimbBits * (Len(a) - 1) + SmallBitLen(a[Len(a)])

(* Texts, and int() *)

\* A text is the sequence of the code points of its characters.
Dot == 46

\* the code point of the digit zero of every script of Unicode 14 that has
\* decimal digits; the nine code points after it are the digits one to nine
DecimalZeros ==
    { 48, 1632, 1776, 1984, 2406, 2534, 2662, 2790, 2918, 3046, 3174, 3302, 3430, 3558,
      3664, 3792, 3872, 4160, 4240, 6112, 6160, 6470, 6608, 6784, 6800, 6992, 7088, 7232,
      7248, 42528, 43216, 43264, 43472, 43504, 43600, 44016, 65296, 66720, 68912, 69734,
      69872, 69942, 70096, 70384, 70736, 70864, 71248, 71360, 71472, 71904, 72016, 72784,
      73040, 73120, 92768, 92864, 93008, 120782, 120792, 120802, 120812, 120822, 123200,
      123632, 125264, 130032 }

\* the code points of the decimal digits
DecimalDigits == UNION {z .. (z + 9) : z \in DecimalZeros}

\* the character is a decimal digit: \d matches it, int() and float() read it
IsDigit(c) == c \in DecimalDigits

DigitValue(c) ==
    IF c < 128 THEN c - 48
    ELSE c - (CHOOSE z \in DecimalZeros : z <= c /\ c <= z + 9)

\* the text fits \d+
Fits_d_plus(text) == text # << >> /\ text \in Seq(DecimalDigits)

\* the text fits [\d.]+
Fits_d_dot_plus(text) == text # << >> /\ text \in Seq(DecimalDigits \cup {Dot})

\* the whole number the first i characters of the text write, the dot left out
RECURSIVE DigitsValueUpTo(_, _)
DigitsValueUpTo(text, i) ==
    IF i = 0 THEN << >>
    ELSE IF text[i] = Dot THEN DigitsValueUpTo(text, i - 1)
    ELSE MulAdd(DigitsValueUpTo(text, i - 1), 10, DigitValue(text[i]))

\* the whole number the digits of the text write, the dot left out
DigitsValue(text) == DigitsValueUpTo(text, Len(text))

\* sys.int_info.default_max_str_digits
max_str_digits == 4300

\* int() raises ValueError on a text of more than max_str_digits digits
int_accepts(text) == Len(text) <= max_str_digits

\* int(text), for a text that fits \d+
int(text) == IF int_accepts(text) THEN DigitsValue(text) ELSE ValueError

(* Floating-point numbers: the values of float() *)

\* A float is m * 2^e with m a whole number of at most 53 binary digits:
\* 53 digits and e >= -1074 (normal), or fewer digits and e = -1074
\* (subnormal), or m = 0 and e = 0 (0.0).  inf is written as 2^1024, the
\* first power of two above every float.
FloatZero == [m |-> << >>, e |-> 0]
inf == [m |-> <<1>>, e |-> 1024]

MaxOfTwo(x, y) == IF x >= y THEN x ELSE y

\* the float nearest to (q + f) * 2^e, ties to the even m, where q > 0 is a
\* whole number and 0 <= f < 1 with f > 0 exactly when `more` holds; q has
\* at least 55 binary digits when `more` holds
RoundToFloat(q, e, more) ==
    LET drop == MaxOfTwo(BitLen(q) - 53, (-1074) - e)
    IN  IF drop <= 0
        THEN (IF e + BitLen(q) > 1024 THEN inf ELSE [m |-> Shl(q, -drop), e |-> e + drop])
        ELSE LET kept == Shr(q, drop)
                 half == BitAt(q, drop - 1) = 1
                 rest == more \/ Sticky(q, drop - 1)
                 up == half /\ (rest \/ BitAt(kept, 0) = 1)
                 m0 == IF up THEN Add(kept, <<1>>) ELSE kept
                 e0 == e + drop
             IN  IF m0 = << >> THEN FloatZero
                 ELSE IF BitLen(m0) = 54 THEN
                      (IF e0 + 54 > 1024 THEN inf ELSE [m |-> Shr(m0, 1), e |-> e0 + 1])
                 ELSE IF e0 + BitLen(m0) > 1024 THEN inf
                 ELSE [m |-> m0, e |-> e0]

\* the positions of the dots of a text
DotsOf(text) == {i \in DOMAIN text : text[i] = Dot}

\* float() accepts a text of digits and dots that has at most one dot and at
\* least one digit ('97', '97.5', '97.', '.5'); it raises ValueError on the
\* others ('1.2.3', '.')
float_accepts(text) ==
    /\ Cardinality(DotsOf(text)) <= 1
    /\ \E i \in DOMAIN text : IsDigit(text[i])

\* the number of digits after the dot
PlacesOf(text) ==
    IF DotsOf(text) = {} THEN 0
    ELSE Len(text) - (CHOOSE i \in DotsOf(text) : TRUE)

\* q \div 10^p, and whether the division left a remainder; it divides by
\* 10^4 as long as it can, a divisor below Base
RECURSIVE DivByTens(_, _)
DivByTens(q, p) ==
    IF p = 0 THEN [quot |-> q, more |-> FALSE]
    ELSE LET step == IF p >= 4 THEN 4 ELSE 1
             d == DivMod(q, 10^step)
         IN  IF d.rem # 0
             THEN [quot |-> DivByTens(d.quot, p - step).quot, more |-> TRUE]
             ELSE DivByTens(d.quot, p - step)

\* float(text): the float nearest to the decimal the text writes,
\* DigitsValue(text) / 10^PlacesOf(text)
float(text) ==
    IF ~float_accepts(text) THEN ValueError
    ELSE LET n == DigitsValue(text)
             p == PlacesOf(text)
             k == 4 * p + 56
             d == DivByTens(Shl(n, k), p)
         IN  IF n = << >> THEN FloatZero ELSE RoundToFloat(d.quot, -k, d.more)

\* x + y on floats: the exact sum, rounded.  A term more than 2^64 times
\* smaller than the other (in the unit of its last digit) only says that the
\* sum is more than the larger term.
float_add(x, y) ==
    IF x = inf \/ y = inf THEN inf
    ELSE IF x.m = << >> THEN y
    ELSE IF y.m = << >> THEN x
    ELSE LET hi == IF x.e >= y.e THEN x ELSE y
             lo == IF x.e >= y.e THEN y ELSE x
         IN  IF hi.e - lo.e > 64
             THEN RoundToFloat(Shl(hi.m, 2), hi.e - 2, TRUE)
             ELSE RoundToFloat(Add(Shl(hi.m, hi.e - lo.e), lo.m), lo.e, FALSE)

\* x / n on a float x and a small number 0 < n <= Base
float_div(x, n) ==
    IF x = inf THEN inf
    ELSE IF x.m = << >> THEN FloatZero
    ELSE LET d == DivMod(Shl(x.m, 71), n)
         IN  RoundToFloat(d.quot, x.e - 71, d.rem # 0)

\* -1, 0 or 1 as x < y, x = y or x > y on floats
float_cmp(x, y) ==
    LET hx == x.e + BitLen(x.m)
        hy == y.e + BitLen(y.m)
    IN  IF x.m = << >> \/ y.m = << >> \/ x.e = y.e THEN Cmp(x.m, y.m)
        ELSE IF hx # hy THEN (IF hx > hy THEN 1 ELSE -1)
        ELSE IF x.e >= y.e THEN Cmp(Shl(x.m, x.e - y.e), y.m)
        ELSE Cmp(x.m, Shl(y.m, y.e - x.e))

\* x >= y on floats
float_ge(x, y) == float_cmp(x, y) >= 0

----------------------------------------------------------------------------
(* Command line *)

\* the defaults of the argument parser: -I 80.0 -C 80.0 -L 100.  argparse
\* makes a float of the text of -I and of -C and an int of the text of -L.
DefaultArgs ==
    [min_perc_identity |-> float(<<56, 48, 46, 48>>),
     min_perc_coverage |-> float(<<56, 48, 46, 48>>),
     min_match_length |-> int(<<49, 48, 48>>)]

\* -I 97 -C 80 -L 99
StrictArgs ==
    [min_perc_identity |-> float(<<57, 55>>),
     min_perc_coverage |-> float(<<56, 48>>),
     min_match_length |-> int(<<57, 57>>)]

ArgsSet == {DefaultArgs, StrictArgs}

----------------------------------------------------------------------------
(* Input lines *)

StartLine == [kind |-> "START"]
EndLine == [kind |-> "END"]
OtherLine == [kind |-> "other"]

\* '//for query: QGENE z'
QueryLine4 == [kind |-> "query", fields |-> <<"//for", "query:", "QGENE", "z">>]
\* '//for query: x y QGENE z'
QueryLine6 == [kind |-> "query", fields |-> <<"//for", "query:", "x", "y", "QGENE", "z">>]

\* 'QGENE|CHR1:100..200|+|gene cover:100(95.0%)|score:50.5|rank:1'
GeneCover1 ==
    [kind |-> "gene cover", starts |-> FALSE, shape |-> TRUE,
     query_name |-> "QGENE", match_name |-> "CHR1",
     match_start |-> <<49, 48, 48>>, match_end |-> <<50, 48, 48>>, strand |-> "+",
     coverage_num |-> "100", coverage_perc |-> <<57, 53, 46, 48>>,
     score |-> "50.5", rank |-> "1"]
\* 'OTHER|CHR2:300..201|-|gene cover:90(80%)|score:-3|rank:2'
GeneCover2 ==
    [kind |-> "gene cover", starts |-> FALSE, shape |-> TRUE,
     query_name |-> "OTHER", match_name |-> "CHR2",
     match_start |-> <<51, 48, 48>>, match_end |-> <<50, 48, 49>>, strand |-> "-",
     coverage_num |-> "90", coverage_perc |-> <<56, 48>>,
     score |-> "-3", rank |-> "2"]
\* 'QGENE|CHR1:100..200|+|gene cover:100(9.5.0%)|score:50.5|rank:1' : matches
\* GENOMIC_MATCH_RE, and float() rejects the coverage_perc group
GeneCoverNoFloat ==
    [kind |-> "gene cover", starts |-> FALSE, shape |-> TRUE,
     query_name |-> "QGENE", match_name |-> "CHR1",
     match_start |-> <<49, 48, 48>>, match_end |-> <<50, 48, 48>>, strand |-> "+",
     coverage_num |-> "100", coverage_perc |-> <<57, 46, 53, 46, 48>>,
     score |-> "50.5", rank |-> "1"]
\* '//*****************START*******************//|CHR1:100..200|+|gene cover:100(97.5%)|score:50.5|rank:7'
StartGeneCover ==
    [kind |-> "gene cover", starts |-> TRUE, shape |-> TRUE,
     query_name |-> "//*****************START*******************//", match_name |-> "CHR1",
     match_start |-> <<49, 48, 48>>, match_end |-> <<50, 48, 48>>, strand |-> "+",
     coverage_num |-> "100", coverage_perc |-> <<57, 55, 46, 53>>,
     score |-> "50.5", rank |-> "7"]
\* 'QGENE|CHR1:100..200|gene cover' : contains 'gene cover', fails GENOMIC_MATCH_RE
GeneCoverBad == [kind |-> "gene cover", starts |-> FALSE, shape |-> FALSE]
\* '//*****************START gene cover list' : begins with START_STR, contains
\* 'gene cover', fails GENOMIC_MATCH_RE
StartGeneCoverBad == [kind |-> "gene cover", starts |-> TRUE, shape |-> FALSE]
\* 'HSP_ID[0]:(100-150);query:(1-50); pid: 98.0'
Hsp0 ==
    [kind |-> "HSP", shape |-> TRUE, hsp_id |-> <<48>>,
     match_start |-> <<49, 48, 48>>, match_end |-> <<49, 53, 48>>,
     query_start |-> <<49>>, query_end |-> <<53, 48>>, perc_id |-> <<57, 56, 46, 48>>]
\* 'HSP_ID[1]:(150-200);query:(51-100); pid: 96.0'
Hsp1 ==
    [kind |-> "HSP", shape |-> TRUE, hsp_id |-> <<49>>,
     match_start |-> <<49, 53, 48>>, match_end |-> <<50, 48, 48>>,
     query_start |-> <<53, 49>>, query_end |-> <<49, 48, 48>>, perc_id |-> <<57, 54, 46, 48>>]
\* 'HSP_ID[2]:(120-180);query:(20-80); pid: 97.5'
Hsp2 ==
    [kind |-> "HSP", shape |-> TRUE, hsp_id |-> <<50>>,
     match_start |-> <<49, 50, 48>>, match_end |-> <<49, 56, 48>>,
     query_start |-> <<50, 48>>, query_end |-> <<56, 48>>, perc_id |-> <<57, 55, 46, 53>>]
\* 'HSP_ID[0]:(100-150);query:(1-50); pid: 1.2.3' : matches HSP_RE, and float()
\* rejects the perc_id group
HspNoFloat ==
    [kind |-> "HSP", shape |-> TRUE, hsp_id |-> <<48>>,
     match_start |-> <<49, 48, 48>>, match_end |-> <<49, 53, 48>>,
     query_start |-> <<49>>, query_end |-> <<53, 48>>, perc_id |-> <<49, 46, 50, 46, 51>>]
\* 'HSP_ID[0] 100-150' : starts with 'HSP_ID', fails HSP_RE
HspBad == [kind |-> "HSP", shape |-> FALSE]

\* The lines the explored inputs are freely made of
FreeLines ==
    { StartLine, EndLine, OtherLine, QueryLine4, QueryLine6,
      GeneCover1, GeneCover2, GeneCoverNoFloat, StartGeneCover, GeneCoverBad, StartGeneCoverBad,
      Hsp0, Hsp1, Hsp2, HspNoFloat, HspBad }

\* a text of one digit more than int() accepts: '1' written 4301 times
LongDigits == [i \in 1..(max_str_digits + 1) |-> 49]

\* 'QGENE|CHR1:100..111(...)1|+|gene cover:100(95.0%)|score:50.5|rank:1', with a
\* match_end group of 4301 digits: matches GENOMIC_MATCH_RE, and int() rejects
\* the group
GeneCoverLongInt ==
    [kind |-> "gene cover", starts |-> FALSE, shape |-> TRUE,
     query_name |-> "QGENE", match_name |-> "CHR1",
     match_start |-> <<49, 48, 48>>, match_end |-> LongDigits, strand |-> "+",
     coverage_num |-> "100", coverage_perc |-> <<57, 53, 46, 48>>,
     score |-> "50.5", rank |-> "1"]
\* 'HSP_ID[0]:(100-150);query:(1-111(...)1); pid: 98.0', with a query_end group
\* of 4301 digits: matches HSP_RE, and int() rejects the group
HspLongInt ==
    [kind |-> "HSP", shape |-> TRUE, hsp_id |-> <<48>>,
     match_start |-> <<49, 48, 48>>, match_end |-> <<49, 53, 48>>,
     query_start |-> <<49>>, query_end |-> LongDigits, perc_id |-> <<57, 56, 46, 48>>]
\* 'QGENE|CHR1:\uFF11\uFF10\uFF10..\uFF12\uFF10\uFF10|+|gene cover:100(\uFF19\uFF15.\uFF10%)|score:50.5|rank:1' :
\* the coordinates 100 and 200 and the coverage 95.0 in fullwidth digits
GeneCoverFullwidth ==
    [kind |-> "gene cover", starts |-> FALSE, shape |-> TRUE,
     query_name |-> "QGENE", match_name |-> "CHR1",
     match_start |-> <<65297, 65296, 65296>>, match_end |-> <<65298, 65296, 65296>>, strand |-> "+",
     coverage_num |-> "100", coverage_perc |-> <<65305, 65301, 46, 65296>>,
     score |-> "50.5", rank |-> "1"]
\* 'HSP_ID[\u0660]:(\u0661\u0660\u0660-\u0661\u0665\u0660);query:(\u0661-\u0665\u0660); pid: \u0669\u0668.\u0660' :
\* the line Hsp0 in Arabic-Indic digits
HspArabic ==
    [kind |-> "HSP", shape |-> TRUE, hsp_id |-> <<1632>>,
     match_start |-> <<1633, 1632, 1632>>, match_end |-> <<1633, 1637, 1632>>,
     query_start |-> <<1633>>, query_end |-> <<1637, 1632>>, perc_id |-> <<1641, 1640, 46, 1632>>]
\* 'QGENE|CHR1:100..200|+|gene cover:100(79.99999999999999999%)|score:50.5|rank:1' :
\* float() of the coverage_perc group is 80.0
GeneCoverRounds ==
    [kind |-> "gene cover", starts |-> FALSE, shape |-> TRUE,
     query_name |-> "QGENE", match_name |-> "CHR1",
     match_start |-> <<49, 48, 48>>, match_end |-> <<50, 48, 48>>, strand |-> "+",
     coverage_num |-> "100", coverage_perc |-> <<55, 57, 46, 57, 57, 57, 57, 57, 57, 57, 57, 57, 57, 57, 57, 57, 57, 57, 57, 57>>,
     score |-> "50.5", rank |-> "1"]
\* 'HSP_ID[0]:(100-150);query:(1-50); pid: 91.7'
HspMean0 ==
    [kind |-> "HSP", shape |-> TRUE, hsp_id |-> <<48>>,
     match_start |-> <<49, 48, 48>>, match_end |-> <<49, 53, 48>>,
     query_start |-> <<49>>, query_end |-> <<53, 48>>, perc_id |-> <<57, 49, 46, 55>>]
\* 'HSP_ID[1]:(100-150);query:(1-50); pid: 90.0'
HspMean1 ==
    [kind |-> "HSP", shape |-> TRUE, hsp_id |-> <<49>>,
     match_start |-> <<49, 48, 48>>, match_end |-> <<49, 53, 48>>,
     query_start |-> <<49>>, query_end |-> <<53, 48>>, perc_id |-> <<57, 48, 46, 48>>]
\* 'HSP_ID[2]:(100-150);query:(1-50); pid: 77.1'
HspMean2 ==
    [kind |-> "HSP", shape |-> TRUE, hsp_id |-> <<50>>,
     match_start |-> <<49, 48, 48>>, match_end |-> <<49, 53, 48>>,
     query_start |-> <<49>>, query_end |-> <<53, 48>>, perc_id |-> <<55, 55, 46, 49>>]
\* 'HSP_ID[3]:(100-150);query:(1-50); pid: 61.2'
HspMean3 ==
    [kind |-> "HSP", shape |-> TRUE, hsp_id |-> <<51>>,
     match_start |-> <<49, 48, 48>>, match_end |-> <<49, 53, 48>>,
     query_start |-> <<49>>, query_end |-> <<53, 48>>, perc_id |-> <<54, 49, 46, 50>>]

\* The lines that are read in the Scenarios only
ScenarioLines ==
    { GeneCoverLongInt, HspLongInt, GeneCoverFullwidth, HspArabic, GeneCoverRounds,
      HspMean0, HspMean1, HspMean2, HspMean3 }

Lines == FreeLines \cup ScenarioLines

\* The lines of the longer inputs: the marker lines and the lines whose
\* numbers are numbers
LongLines ==
    { StartLine, EndLine, OtherLine, QueryLine4, QueryLine6,
      GeneCover1, GeneCover2, GeneCoverBad, Hsp0, Hsp1, HspBad }

\* The lines offered to a reader that is outside every block: the lines that
\* begin with the START marker and one line for each of the other tests the
\* parser has, well-formed or not
StrayLines ==
    { StartLine, StartGeneCover, StartGeneCoverBad,
      EndLine, OtherLine, QueryLine4, GeneCover1, Hsp0, HspNoFloat, HspBad }

\* The input of the example of the specification
ExampleInput == <<StartLine, QueryLine6, GeneCover1, Hsp0, Hsp1, EndLine>>

\* The example with a query-name line of four fields, '//for query: QGENE z'
ExampleInput4 == <<StartLine, QueryLine4, GeneCover1, Hsp0, Hsp1, EndLine>>

\* One HSP id on two lines of a match
SameIdInput == <<StartLine, GeneCover1, Hsp0, Hsp0, EndLine>>

\* Two matches in one block, the second with HSP lines of its own
TwoMatchInput == <<StartLine, GeneCover1, Hsp0, GeneCover2, Hsp1>>

\* Two matches in one block, the second without HSP lines
EmptySecondInput == <<StartLine, GeneCover1, Hsp0, GeneCover2, EndLine>>

\* Two matches in one block, each with an HSP line, and the END marker
TwoWrittenInput == <<StartLine, GeneCover1, Hsp0, GeneCover2, Hsp0, EndLine>>

\* A second START marker line in a block that was not closed
RestartInput == <<StartLine, GeneCover1, Hsp0, StartLine, EndLine>>

\* Four HSPs whose pids, 91.7, 90.0, 77.1 and 61.2, have the mean 80: the
\* floats of the four texts add up to 320 exactly, and the sum the code
\* computes, left to right, is 319.99999999999994
RoundedMeanInput ==
    <<StartLine, GeneCover1, HspMean0, HspMean1, HspMean2, HspMean3, EndLine>>

\* A coverage percentage that float() rounds up to 80.0
RoundedCoverageInput == <<StartLine, GeneCoverRounds, Hsp0, EndLine>>

\* A match whose match_end int() rejects, without and with an HSP
LongIntMatchInput == <<StartLine, GeneCoverLongInt, EndLine>>
LongIntMatchHspInput == <<StartLine, GeneCoverLongInt, Hsp0, EndLine>>

\* An HSP line whose query_end int() rejects
LongIntHspInput == <<StartLine, GeneCover1, HspLongInt>>

\* A match and its HSP written in digits that are not ASCII
UnicodeInput == <<StartLine, GeneCoverFullwidth, HspArabic, EndLine>>

\* The inputs that are explored whatever their length
Scenarios ==
    { ExampleInput, ExampleInput4, SameIdInput, TwoMatchInput, EmptySecondInput,
      TwoWrittenInput, RestartInput, RoundedMeanInput, RoundedCoverageInput,
      LongIntMatchInput, LongIntMatchHspInput, LongIntHspInput, UnicodeInput }

\* the inputs the Scenarios begin with
ScenarioPrefixes ==
    UNION {{SubSeq(input, 1, n) : n \in 1..Len(input)} : input \in Scenarios}

\* the text of the line begins with the START marker: the marker line itself,
\* or a line that contains 'gene cover' after the marker
BeginsWithStart(line) ==
    \/ line.kind = "START"
    \/ line.kind = "gene cover" /\ line.starts

\* the text of the line fits GENOMIC_MATCH_RE: the text around the groups
\* does, match_start and match_end fit \d+ and coverage_perc fits [\d.]+
Fits_GENOMIC_MATCH_RE(line) ==
    /\ line.shape
    /\ Fits_d_plus(line.match_start)
    /\ Fits_d_plus(line.match_end)
    /\ Fits_d_dot_plus(line.coverage_perc)

\* the text of the line fits HSP_RE
Fits_HSP_RE(line) ==
    /\ line.shape
    /\ Fits_d_plus(line.hsp_id)
    /\ Fits_d_plus(line.match_start)
    /\ Fits_d_plus(line.match_end)
    /\ Fits_d_plus(line.query_start)
    /\ Fits_d_plus(line.query_end)
    /\ Fits_d_dot_plus(line.perc_id)

\* a line that fails the check its branch of the parser applies
Malformed(line) ==
    \/ line.kind = "query" /\ Len(line.fields) # 4
    \/ line.kind = "gene cover" /\ ~Fits_GENOMIC_MATCH_RE(line)
    \/ line.kind = "HSP" /\ ~Fits_HSP_RE(line)

\* what a line is to a reader that is inside a block (inside) or not: it opens
\* a block, is ignored, is malformed inside a block, or is a well-formed HSP,
\* gene-cover, query-name or END line inside a block
RoleOf(inside, line) ==
    IF line.kind = "gene cover" /\ line.starts THEN "start gene cover"
    ELSE IF ~inside
    THEN (IF BeginsWithStart(line) THEN "open" ELSE "ignored")
    ELSE IF line.kind \in {"START", "other"} THEN "ignored"
    ELSE IF Malformed(line) THEN "malformed"
    ELSE IF line.kind = "HSP" THEN "hsp"
    ELSE IF line.kind = "gene cover" THEN "match"
    ELSE IF line.kind = "query" THEN "query"
    ELSE "end"

Roles == {"open", "ignored", "malformed", "hsp", "match", "query", "end", "start gene cover"}


MaxOf(role) ==
    IF role = "ignored" THEN MaxIgnored
    ELSE IF role = "malformed" THEN MaxMalformed
    ELSE IF role = "hsp" THEN MaxHspLines
    ELSE IF role = "query" THEN MaxQueries
    ELSE IF role = "start gene cover" THEN MaxStartGeneCover
    ELSE MaxLongLines + 1

\* The inputs explored: the Scenarios, and every input of at most maxlen
\* FreeLines with at most MaxIgnored ignored lines, MaxMalformed malformed
\* lines, MaxHspLines well-formed HSP lines and MaxQueries well-formed
\* query-name lines inside blocks, and MaxStartGeneCover lines that begin
\* with the START marker and contain 'gene cover', whose lines outside the
\* blocks are StrayLines.
\* ls is the input read so far, seen[r] the number of its lines of role r.
InputAllowed(ls, seen, inside, line, maxlen) ==
    \/ /\ Len(ls) < maxlen
       /\ line \in FreeLines
       /\ inside \/ line \in StrayLines
       /\ seen[RoleOf(inside, line)] < MaxOf(RoleOf(inside, line))
    \/ Append(ls, line) \in ScenarioPrefixes

----------------------------------------------------------------------------
(* Module-level constants and the tests the parser applies to a line *)

None == [kind |-> "None"]

\* a test that takes the END marker for the START marker as well
startswith_any_marker(line) == line.kind \in {"START", "END"}

startswith_START_STR(line) ==
    \/ line.kind = "START"
    \/ line.kind = "gene cover" /\ line.starts
\* a test that compares only the prefix the two markers share
startswith_marker_prefix(line) == line.kind \in {"END", "START"}

startswith_END_STR(line) == line.kind = "END"
startswith_QUERY_NAME_STR(line) == line.kind = "query"
contains_gene_cover(line) == line.kind = "gene cover"
startswith_HSP_STR(line) == line.kind = "HSP"

\* line.split()
split(line) == line.fields

\* the field count test with the count of the example's line instead of 4
wrong_field_count_six(fields) == Len(fields) # 6

\* len(fields) != 4
wrong_field_count(fields) == Len(fields) # 4

\* GENOMIC_MATCH_RE.match(line.rstrip()): None, or the match object with the
\* text of its groups
GENOMIC_MATCH_RE_match(line, n) ==
    IF Fits_GENOMIC_MATCH_RE(line)
    THEN [kind |-> "match", lineno |-> n,
          query_name |-> line.query_name, match_name |-> line.match_name,
          match_start |-> line.match_start, match_end |-> line.match_end,
          strand |-> line.strand, coverage_num |-> line.coverage_num,
          coverage_perc |-> line.coverage_perc, score |-> line.score, rank |-> line.rank]
    ELSE None

\* HSP_RE.match(line.rstrip()): None, or the match object with the text of
\* its groups
HSP_RE_match(line, n) ==
    IF Fits_HSP_RE(line)
    THEN [kind |-> "match", lineno |-> n, hsp_id |-> line.hsp_id,
          match_start |-> line.match_start, match_end |-> line.match_end,
          query_start |-> line.query_start, query_end |-> line.query_end,
          perc_id |-> line.perc_id]
    ELSE None

\* dict()
EmptyDict == << >>

\* len(hsp_dict)
len(d) == Cardinality(DOMAIN d)

\* hsp_dict[key] = value.  A dict keeps its keys in the order of their first
\* insertion: `pos` of an entry is the place of its key in that order, and
\* an assignment to a key the dict has leaves the key where it is.
DictSet(d, key, value) ==
    [k \in (DOMAIN d) \cup {key} |->
        IF k = key
        THEN [value EXCEPT !.pos = IF key \in DOMAIN d THEN d[key].pos ELSE len(d) + 1]
        ELSE d[k]]

\* the dict built from an HSP_RE match, lines 66-68: int() of the four
\* coordinates and float() of perc_id, each of which can raise ValueError.
\* pos is 0 as long as the dict is in no hsp_dict.
HspOf(match) ==
    IF /\ int_accepts(match.match_start)
       /\ int_accepts(match.match_end)
       /\ int_accepts(match.query_start)
       /\ int_accepts(match.query_end)
       /\ float_accepts(match.perc_id)
    THEN [lineno |-> match.lineno, pos |-> 0,
          match_start |-> int(match.match_start), match_end |-> int(match.match_end),
          query_start |-> int(match.query_start), query_end |-> int(match.query_end),
          perc_id |-> float(match.perc_id)]
    ELSE ValueError

\* dict(match=genomic_match, hsps=hsp_dict)
Record(gm, hsps) == [match |-> gm, hsps |-> hsps]

----------------------------------------------------------------------------
(* write_gff_line *)

\* int() accepts match_end and match_start, line 75
coordinates_accepted(gm) == int_accepts(gm.match_end) /\ int_accepts(gm.match_start)

\* abs(int(genomic_match.group('match_end')) - int(genomic_match.group('match_start')))
match_length(gm) ==
    LET end == int(gm.match_end)
        start == int(gm.match_start)
    IN  IF Cmp(end, start) >= 0 THEN Sub(end, start) ELSE Sub(start, end)

\* [hsp_dict[i]['perc_id'] for i in hsp_dict]: the keys come in the order of
\* their insertion
perc_ids(d) == [i \in 1..len(d) |-> d[CHOOSE k \in DOMAIN d : d[k].pos = i].perc_id]

\* sum(list), for a list of floats: 0 + list[1] + ... + list[n], added from
\* left to right and rounded after each addition
RECURSIVE sum(_)
sum(list) ==
    IF list = << >> THEN FloatZero
    ELSE float_add(sum(SubSeq(list, 1, Len(list) - 1)), list[Len(list)])

\* sum([...])/num_hsps, for num_hsps > 0
avg_perc_identity(d) == float_div(sum(perc_ids(d)), len(d))

\* float(genomic_match.group('coverage_perc'))
query_coverage_perc(gm) == float(gm.coverage_perc)

\* the filter with the coverage bound made exclusive
passes_filter_exclusive(avg, coverage, length, a) ==
    /\ float_ge(avg, a.min_perc_identity)
    /\ float_cmp(coverage, a.min_perc_coverage) > 0
    /\ Cmp(length, a.min_match_length) >= 0

\* the filter with the identity comparison turned round
passes_filter_reversed(avg, coverage, length, a) ==
    /\ float_cmp(avg, a.min_perc_identity) <= 0
    /\ float_ge(coverage, a.min_perc_coverage)
    /\ Cmp(length, a.min_match_length) >= 0

\* the condition of the if statement, lines 78-80, on the values of
\* avg_perc_identity, query_coverage_perc and match_length
passes_filter(avg, coverage, length, a) ==
    /\ float_ge(avg, a.min_perc_identity)
    /\ float_ge(coverage, a.min_perc_coverage)
    /\ Cmp(length, a.min_match_length) >= 0

\* 'ID={}_{}'.format(query_name, genomic_match.group('rank'))
attributes_of(qn, gm) == [ID |-> <<qn, gm.rank>>]

\* '\t'.join([...]) + '\n': start and end are the texts of the groups
gff_line_of(gm, qn) ==
    [seqid |-> gm.match_name, source |-> "BLAST", type |-> "match",
     start |-> gm.match_start, end |-> gm.match_end, score |-> gm.score,
     strand |-> gm.strand, phase |-> ".", attributes |-> attributes_of(qn, gm)]

\* write_gff_line that skips a record with an empty mapping instead of dividing
write_gff_line_skip(gm, d, qn, output_file, a) ==
    IF ~coordinates_accepted(gm)
    THEN [raised |-> "ValueError", file |-> output_file]
    ELSE IF len(d) = 0
    THEN [raised |-> "None", file |-> output_file]
    ELSE IF ~float_accepts(gm.coverage_perc)
    THEN [raised |-> "ValueError", file |-> output_file]
    ELSE IF passes_filter(avg_perc_identity(d), query_coverage_perc(gm), match_length(gm), a)
         THEN [raised |-> "None", file |-> Append(output_file, gff_line_of(gm, qn))]
         ELSE [raised |-> "None", file |-> output_file]

\* lines 74-77 of write_gff_line: the exception they raise, or None and the
\* values of match_length, avg_perc_identity and query_coverage_perc.  The
\* statements run in the order of the source: int() of the coordinates (line
\* 75), the division by num_hsps (line 76), float() of the coverage_perc
\* group (line 77).
locals_of(gm, d) ==
    IF ~coordinates_accepted(gm)
    THEN [raised |-> "ValueError"]
    ELSE IF len(d) = 0
    THEN [raised |-> "ZeroDivisionError"]
    ELSE IF ~float_accepts(gm.coverage_perc)
    THEN [raised |-> "ValueError"]
    ELSE [raised |-> "None",
          match_length |-> match_length(gm),
          avg_perc_identity |-> avg_perc_identity(d),
          query_coverage_perc |-> query_coverage_perc(gm)]

\* lines 78-86 of write_gff_line, on the outcome v of lines 74-77: the
\* comparisons (lines 78-80) and the write (line 86)
filter_and_write(v, gm, qn, output_file, a) ==
    IF v.raised # "None"
    THEN [raised |-> v.raised, file |-> output_file]
    ELSE IF passes_filter(v.avg_perc_identity, v.query_coverage_perc, v.match_length, a)
         THEN [raised |-> "None", file |-> Append(output_file, gff_line_of(gm, qn))]
         ELSE [raised |-> "None", file |-> output_file]

\* write_gff_line(genomic_match, hsp_dict, query_name, output_file): the exception
\* it raises (or None) and the content of output_file afterwards
write_gff_line(gm, d, qn, output_file, a) ==
    filter_and_write(locals_of(gm, d), gm, qn, output_file, a)

----------------------------------------------------------------------------
(* parse_genblastA and the driver loop *)

Init ==
    /\ lines = << >>
    /\ in_record = FALSE
    /\ hsp_dict = EmptyDict
    /\ genomic_match = None
    /\ query_name = ""
    /\ pc = "read"
    /\ exception = "None"
    /\ cur = None
    /\ yielded = << >>
    /\ out = << >>
    /\ args \in ArgsSet
    /\ count = [r \in Roles |-> 0]

\* yield(dict(match=genomic_match, hsps=hsp_dict)): control passes to the driver
Yield ==
    /\ cur' = Record(genomic_match, hsp_dict)
    /\ yielded' = Append(yielded, [match |-> genomic_match, hsps |-> hsp_dict,
                                   lineno |-> Len(lines) + 1])
    /\ pc' = "yield"
    /\ UNCHANGED <<in_record, hsp_dict, genomic_match, query_name, exception>>

\* lines 34-37 without the reset of query_name
EndReset_keeps_query ==
    /\ hsp_dict' = EmptyDict
    /\ genomic_match' = None
    /\ query_name' = query_name
    /\ in_record' = FALSE

\* lines 34-37
EndReset ==
    /\ hsp_dict' = EmptyDict
    /\ genomic_match' = None
    /\ query_name' = ""
    /\ in_record' = FALSE

\* lines 51-58 with the match of the line dropped when a match is active
GeneCoverMatch_keeps(line, n) ==
    /\ genomic_match' = IF genomic_match # None THEN genomic_match
                        ELSE GENOMIC_MATCH_RE_match(line, n)
    /\ in_record' = IF genomic_match' = None THEN FALSE ELSE in_record
    /\ UNCHANGED query_name

\* lines 51-58
GeneCoverMatch(line, n) ==
    /\ genomic_match' = GENOMIC_MATCH_RE_match(line, n)
    /\ in_record' = IF genomic_match' = None THEN FALSE ELSE in_record
    /\ UNCHANGED query_name

\* the body of the for loop for one line, up to its yield if it has one, or
\* up to the exception that leaves the generator and the driver loop
ReadLine(line, maxlen) ==
    /\ pc = "read"
    /\ InputAllowed(lines, count, in_record, line, maxlen)
    /\ lines' = Append(lines, line)
    /\ count' = [count EXCEPT ![RoleOf(in_record, line)] = @ + 1]
    /\ UNCHANGED <<out, args>>
    /\ IF ~in_record
       THEN /\ in_record' = (IF startswith_START_STR(line) THEN TRUE ELSE in_record)
            /\ UNCHANGED <<hsp_dict, genomic_match, query_name, pc, exception, cur, yielded>>
       ELSE IF startswith_END_STR(line)
       THEN IF genomic_match # None
            THEN Yield
            ELSE EndReset /\ UNCHANGED <<pc, exception, cur, yielded>>
       ELSE IF startswith_QUERY_NAME_STR(line)
       THEN /\ IF wrong_field_count(split(line))
               THEN in_record' = FALSE /\ UNCHANGED query_name
               ELSE query_name' = split(line)[3] /\ UNCHANGED in_record
            /\ UNCHANGED <<hsp_dict, genomic_match, pc, exception, cur, yielded>>
       ELSE IF contains_gene_cover(line)
       THEN IF genomic_match # None
            THEN Yield
            ELSE GeneCoverMatch(line, Len(lines) + 1)
                 /\ UNCHANGED <<hsp_dict, pc, exception, cur, yielded>>
       ELSE IF startswith_HSP_STR(line)
       THEN LET match == HSP_RE_match(line, Len(lines) + 1)
                hsp == HspOf(match)
            IN  /\ IF match = None
                   THEN /\ in_record' = FALSE
                        /\ UNCHANGED <<hsp_dict, pc, exception>>
                   ELSE IF hsp = ValueError \/ ~int_accepts(match.hsp_id)
                   THEN /\ pc' = "crashed"
                        /\ exception' = "ValueError"
                        /\ UNCHANGED <<hsp_dict, in_record>>
                   ELSE /\ hsp_dict' = DictSet(hsp_dict, int(match.hsp_id), hsp)
                        /\ UNCHANGED <<in_record, pc, exception>>
                /\ UNCHANGED <<genomic_match, query_name, cur, yielded>>
       ELSE UNCHANGED <<in_record, hsp_dict, genomic_match, query_name, pc, exception, cur,
                        yielded>>

\* line 113: the driver calls write_gff_line on the yielded record
WriteGff ==
    /\ pc = "yield"
    /\ LET r == write_gff_line(cur.match, cur.hsps, cur.match.query_name, out, args)
       IN  /\ out' = r.file
           /\ pc' = IF r.raised = "None" THEN "resume" ELSE "crashed"
           /\ exception' = r.raised
    /\ UNCHANGED <<lines, in_record, hsp_dict, genomic_match, query_name, cur, yielded, args,
                   count>>

\* the rest of the loop body without line 50: the dict handed out stays bound
\* to hsp_dict when a gene-cover line made the yield
Resume_keeps_dict ==
    /\ pc = "resume"
    /\ pc' = "read"
    /\ cur' = None
    /\ LET line == lines[Len(lines)]
       IN  IF startswith_END_STR(line)
           THEN EndReset
           ELSE /\ hsp_dict' = hsp_dict
                /\ GeneCoverMatch(line, Len(lines))
    /\ UNCHANGED <<lines, yielded, out, args, count, exception>>

\* next() on the generator: the rest of the loop body after the yield
Resume ==
    /\ pc = "resume"
    /\ pc' = "read"
    /\ cur' = None
    /\ LET line == lines[Len(lines)]
       IN  IF startswith_END_STR(line)
           THEN EndReset
           ELSE /\ hsp_dict' = EmptyDict
                /\ GeneCoverMatch(line, Len(lines))
    /\ UNCHANGED <<lines, yielded, out, args, count, exception>>

\* the generator returns at the end of the input and hands out the match that
\* is still active
EndOfInput_flush ==
    /\ pc = "read"
    /\ pc' = "done"
    /\ yielded' = IF genomic_match # None
                  THEN Append(yielded, [match |-> genomic_match, hsps |-> hsp_dict,
                                        lineno |-> Len(lines) + 1])
                  ELSE yielded
    /\ UNCHANGED <<lines, in_record, hsp_dict, genomic_match, query_name, cur, out, args,
                   count, exception>>

\* the input is exhausted: the generator returns and the for loop of the driver ends
EndOfInput ==
    /\ pc = "read"
    /\ pc' = "done"
    /\ UNCHANGED <<lines, in_record, hsp_dict, genomic_match, query_name, cur, yielded, out, args,
                   count, exception>>

Next ==
    \/ \E line \in Lines : ReadLine(line, MaxLines)
    \/ WriteGff
    \/ Resume
    \/ EndOfInput

Spec == Init /\ [][Next]_vars

\* the same program on inputs of up to MaxLongLines lines, made of the lines
\* LongLines
NextLong ==
    \/ \E line \in LongLines : ReadLine(line, MaxLongLines)
    \/ WriteGff
    \/ Resume
    \/ EndOfInput

SpecLong == Init /\ [][NextLong]_vars

TypeOK ==
    /\ in_record \in BOOLEAN
    /\ pc \in {"read", "yield", "resume", "done", "crashed"}
    /\ exception \in {"None", "ZeroDivisionError", "ValueError"}
    /\ (pc = "crashed") = (exception # "None")
    /\ Len(out) <= Len(yielded)

----------------------------------------------------------------------------
(* The blocks of an input *)

\* a line that ends the block it is read in: the END marker or a malformed line
Closes(line) == line.kind = "END" \/ Malformed(line)

\* BlockIds(ls)[i] is the number of the START line that opened the block in
\* which line i is read, and 0 when line i is read outside every block
RECURSIVE BlockIds(_)
BlockIds(ls) ==
    IF ls = << >> THEN << >>
    ELSE LET n == Len(ls)
             front == BlockIds(SubSeq(ls, 1, n - 1))
             \* the line before is the one that opened the block, or a
             \* line read inside it that does not close it
             goesOn == /\ n > 1
                       /\ front[n - 1] # 0
                       /\ front[n - 1] = n - 1 \/ ~Closes(ls[n - 1])
         IN  Append(front, IF goesOn THEN front[n - 1]
                           ELSE IF BeginsWithStart(ls[n]) THEN n ELSE 0)

\* line i is read inside a block: after the line that opened the block
InsideBlock(B, i) == B[i] # 0 /\ B[i] # i

BlockStarts(B) == {B[i] : i \in DOMAIN B} \ {0}
\* the lines read inside block s, after the line that opened it
LinesOf(B, s) == {i \in DOMAIN B : B[i] = s /\ i # s}
GoodGeneCover(i) == lines[i].kind = "gene cover" /\ Fits_GENOMIC_MATCH_RE(lines[i])
\* an HSP_ID line the parser makes an entry of
GoodHsp(i) ==
    /\ lines[i].kind = "HSP"
    /\ Fits_HSP_RE(lines[i])
    /\ int_accepts(lines[i].hsp_id)
    /\ HspOf(HSP_RE_match(lines[i], i)) # ValueError
ClosedByEnd(B, s) == \E e \in LinesOf(B, s) : lines[e].kind = "END"

\* the records yielded while the lines of block s were read
RecordsIn(B, s) == {k \in DOMAIN yielded : B[yielded[k].lineno] = s}

\* the input lines whose HSPs a record holds
HspLinesOf(rec) == {rec.hsps[id].lineno : id \in DOMAIN rec.hsps}

\* the HSP_ID lines between gene-cover line i of block s and the next boundary
\* (the next gene-cover line or the END marker)
SegmentOf(B, s, i) ==
    {h \in LinesOf(B, s) :
        /\ h > i
        /\ GoodHsp(h)
        /\ \A j \in LinesOf(B, s) :
              (i < j /\ j < h) => ~(lines[j].kind \in {"gene cover", "END"})}

\* the HSP_ID lines of the set hs carry pairwise different ids
DistinctIds(hs) == \A g, h \in hs : int(lines[g].hsp_id) = int(lines[h].hsp_id) => g = h

----------------------------------------------------------------------------
(* Claims *)

\* C1: after a malformed line inside a block, nothing the abandoned block had
\* built is ever yielded: no record yielded after the malformed line holds a
\* match or an HSP that was parsed in the abandoned block.
C1_AbandonedStateNeverYielded ==
    LET B == BlockIds(lines)
    IN  \A j \in DOMAIN lines : \A k \in DOMAIN yielded :
            (InsideBlock(B, j) /\ Malformed(lines[j]) /\ yielded[k].lineno > j)
            => /\ B[yielded[k].match.lineno] # B[j]
               /\ \A h \in HspLinesOf(yielded[k]) : B[h] # B[j]

\* C2: a block that contains a malformed gene-cover line yields no record, also
\* when well-formed gene-cover lines precede the malformed one, and a block
\* that follows it yields only matches and HSPs of its own lines.
C2_MalformedGeneCoverYieldsNothing ==
    LET B == BlockIds(lines)
    IN  \A j \in DOMAIN lines :
            (InsideBlock(B, j) /\ lines[j].kind = "gene cover"
                /\ ~Fits_GENOMIC_MATCH_RE(lines[j]))
            => /\ RecordsIn(B, B[j]) = {}
               /\ \A k \in DOMAIN yielded :
                     yielded[k].lineno > j
                     => /\ B[yielded[k].match.lineno] = B[yielded[k].lineno]
                        /\ \A h \in HspLinesOf(yielded[k]) : B[h] = B[yielded[k].lineno]

\* C3: a block closed by END with K >= 2 well-formed gene-cover lines (and
\* HSP ids that differ between two boundaries) yields exactly K records, one
\* per gene-cover line, each holding exactly the HSP_ID lines between its
\* gene-cover line and the next boundary.
C3_OneRecordPerGeneCover ==
    LET B == BlockIds(lines)
    IN  \A s \in BlockStarts(B) :
            LET gcs == {i \in LinesOf(B, s) : GoodGeneCover(i)}
            IN  (/\ ClosedByEnd(B, s)
                 /\ Cardinality(gcs) >= 2
                 /\ \A i \in gcs : DistinctIds(SegmentOf(B, s, i)))
                => /\ Cardinality(RecordsIn(B, s)) = Cardinality(gcs)
                   /\ \A i \in gcs : \E k \in RecordsIn(B, s) :
                         /\ yielded[k].match.lineno = i
                         /\ HspLinesOf(yielded[k]) = SegmentOf(B, s, i)

\* C4: a block closed by END with exactly one gene-cover line and N >= 1
\* well-formed HSP_ID lines of different ids yields exactly one record, and
\* its HSP mapping has N entries.
C4_OneRecordWithAllHsps ==
    LET B == BlockIds(lines)
    IN  \A s \in BlockStarts(B) :
            LET gcs == {i \in LinesOf(B, s) : GoodGeneCover(i)}
                hs == {h \in LinesOf(B, s) : GoodHsp(h)}
            IN  (/\ ClosedByEnd(B, s)
                 /\ Cardinality(gcs) = 1
                 /\ hs # {}
                 /\ DistinctIds(hs))
                => /\ Cardinality(RecordsIn(B, s)) = 1
                   /\ \A k \in RecordsIn(B, s) : len(yielded[k].hsps) = Cardinality(hs)

\* the record has numbers in all its fields, a mapping that is not empty, and
\* passes the thresholds a
Qualifies(rec, a) ==
    /\ len(rec.hsps) > 0
    /\ coordinates_accepted(rec.match)
    /\ float_accepts(rec.match.coverage_perc)
    /\ passes_filter(avg_perc_identity(rec.hsps), query_coverage_perc(rec.match),
                     match_length(rec.match), a)

\* C5: the run never stops on an exception, and when it has ended every
\* yielded record that passes the thresholds has its feature line in the output.
C5_AlwaysTerminatesNormally ==
    /\ pc # "crashed"
    /\ pc = "done"
       => \A k \in DOMAIN yielded :
             Qualifies(yielded[k], args)
             => \E n \in DOMAIN out :
                   out[n] = gff_line_of(yielded[k].match, yielded[k].match.query_name)

\* C6: a block closed by END that holds one well-formed gene-cover line and no
\* HSP_ID line yields exactly one record, for that match, with an empty mapping.
C6_NoHspLinesYieldsEmptyMapping ==
    LET B == BlockIds(lines)
    IN  \A s \in BlockStarts(B) :
            LET gcs == {i \in LinesOf(B, s) : GoodGeneCover(i)}
            IN  (/\ ClosedByEnd(B, s)
                 /\ Cardinality(gcs) = 1
                 /\ \A h \in LinesOf(B, s) : lines[h].kind # "HSP")
                => /\ Cardinality(RecordsIn(B, s)) = 1
                   /\ \A k \in RecordsIn(B, s) :
                         /\ yielded[k].match.lineno \in gcs
                         /\ yielded[k].hsps = EmptyDict

\* the feature line of the example: CHR1 BLAST match 100 200 50.5 + . ID=QGENE_1
ExampleLine ==
    [seqid |-> "CHR1", source |-> "BLAST", type |-> "match",
     start |-> <<49, 48, 48>>, end |-> <<50, 48, 48>>,
     score |-> "50.5", strand |-> "+", phase |-> ".", attributes |-> [ID |-> <<"QGENE", "1">>]]

\* C7 (as stated): the example block, run with the default thresholds, yields
\* exactly one feature line, CHR1 BLAST match 100 200 50.5 + . ID=QGENE_1.
C7_ExampleYieldsOneLine ==
    (lines = ExampleInput /\ args = DefaultArgs /\ pc = "done") => out = <<ExampleLine>>

\* C7 (amended): the example block, run with the default thresholds, yields no
\* record and no feature line, because its query-name line has six fields; with
\* the four-field query-name line it yields exactly the feature line of the example.
C7_ExampleYieldsNothing ==
    /\ (lines = ExampleInput /\ args = DefaultArgs /\ pc = "done")
       => (out = << >> /\ yielded = << >>)
    /\ (lines = ExampleInput4 /\ args = DefaultArgs /\ pc = "done")
       => out = <<ExampleLine>>

\* the example has been run to its end with the default thresholds
C7_ExampleRun == lines = ExampleInput /\ args = DefaultArgs /\ pc = "done"

\* the query name the parser tracks when line i of its block is read: the third
\* field of the latest well-formed query-name line of the block before line i
TrackedQueryLines(B, i) ==
    {q \in LinesOf(B, B[i]) :
        q < i /\ lines[q].kind = "query" /\ ~Malformed(lines[q])}

\* C8: the ID attribute of every feature line written is <query_name>_<rank>,
\* with the query name tracked from the query-name line of the block when the
\* match was parsed, whatever the prefix of the gene-cover line is.
C8_IdUsesTrackedQueryName ==
    [][(out' # out /\ TrackedQueryLines(BlockIds(lines), cur.match.lineno) # {})
       => LET qs == TrackedQueryLines(BlockIds(lines), cur.match.lineno)
              q == CHOOSE x \in qs : \A y \in qs : y <= x
          IN  out'[Len(out')].attributes = [ID |-> <<lines[q].fields[3], cur.match.rank>>]]_vars

\* the thresholds the filter is examined at: -I 80, 97 or 98, -C 80 or 96,
\* -L 100 or 101
Thresholds ==
    [min_perc_identity : {float(<<56, 48>>), float(<<57, 55>>), float(<<57, 56>>)},
     min_perc_coverage : {float(<<56, 48>>), float(<<57, 54>>)},
     min_match_length : {int(<<49, 48, 48>>), int(<<49, 48, 49>>)}]

\* |x - y| on whole numbers
Distance(x, y) == IF Cmp(x, y) >= 0 THEN Sub(x, y) ELSE Sub(y, x)

\* the sum of the perc_id entries of the keys of a mapping as the number
\* m * 2^e it is, without rounding
RECURSIVE ExactSumOver(_, _)
ExactSumOver(d, keys) ==
    IF keys = {} THEN FloatZero
    ELSE LET k == CHOOSE x \in keys : TRUE
             x == d[k].perc_id
             rest == ExactSumOver(d, keys \ {k})
             e == IF x.e <= rest.e THEN x.e ELSE rest.e
         IN  IF rest.m = << >> THEN x
             ELSE IF x.m = << >> THEN rest
             ELSE [m |-> Add(Shl(x.m, x.e - e), Shl(rest.m, rest.e - e)), e |-> e]

\* n * t * (1 + n / 2^52) and n * t * (1 - n / 2^52), for a float t and a
\* small number n > 0, without rounding
SlightlyAbove(t, n) ==
    [m |-> Add(Shl(MulAdd(t.m, n, 0), 52), MulAdd(MulAdd(t.m, n, 0), n, 0)), e |-> t.e - 52]
SlightlyBelow(t, n) ==
    [m |-> Sub(Shl(MulAdd(t.m, n, 0), 52), MulAdd(MulAdd(t.m, n, 0), n, 0)), e |-> t.e - 52]

\* the mean of the perc_id entries of the mapping d, the number the entries
\* have without any rounding, is at least t: their sum is at least len(d) * t
ExactMeanReaches(d, t) ==
    float_cmp(ExactSumOver(d, DOMAIN d), [m |-> MulAdd(t.m, len(d), 0), e |-> t.e]) >= 0

RECURSIVE WrittenUnder(_, _, _)
WrittenUnder(ys, a, file) ==
    IF ys = << >> THEN file
    ELSE LET r == write_gff_line(ys[1].match, ys[1].hsps, ys[1].match.query_name, file, a)
         IN  IF r.raised = "None" THEN WrittenUnder(Tail(ys), a, r.file) ELSE r.file

\* what lines 74-77 of write_gff_line compute for each of the records ys
RECURSIVE LocalsOf(_)
LocalsOf(ys) ==
    IF ys = << >> THEN << >>
    ELSE <<locals_of(ys[1].match, ys[1].hsps)>> \o LocalsOf(Tail(ys))

\* WrittenUnder(ys, a, file), given vs = LocalsOf(ys): the same lines, with
\* lines 74-77 computed once for all the thresholds they do not depend on
RECURSIVE WrittenFrom(_, _, _, _)
WrittenFrom(ys, vs, a, file) ==
    IF ys = << >> THEN file
    ELSE LET r == filter_and_write(vs[1], ys[1].match, ys[1].match.query_name, file, a)
         IN  IF r.raised = "None" THEN WrittenFrom(Tail(ys), Tail(vs), a, r.file) ELSE r.file

\* b is a with exactly one threshold raised
RaisesOne(a, b) ==
    \/ /\ b.min_perc_coverage = a.min_perc_coverage
       /\ b.min_match_length = a.min_match_length
       /\ float_cmp(b.min_perc_identity, a.min_perc_identity) > 0
    \/ /\ b.min_perc_identity = a.min_perc_identity
       /\ b.min_match_length = a.min_match_length
       /\ float_cmp(b.min_perc_coverage, a.min_perc_coverage) > 0
    \/ /\ b.min_perc_identity = a.min_perc_identity
       /\ b.min_perc_coverage = a.min_perc_coverage
       /\ Cmp(b.min_match_length, a.min_match_length) > 0

\* C10: for the same input, raising one threshold never adds a feature line:
\* the lines written under the higher threshold are among those written under
\* the lower one, and are not more.  The first conjunct ties the output of
\* the run to WrittenUnder; both are stated each time the driver has run
\* write_gff_line, the only step that changes the records and the output.
C10_FilterMonotone ==
    pc \in {"resume", "crashed"}
    => LET vs == LocalsOf(yielded)
           written == {<<a, WrittenFrom(yielded, vs, a, << >>)>> : a \in Thresholds}
       IN  /\ out = WrittenUnder(yielded, args, << >>)
           /\ out = WrittenFrom(yielded, vs, args, << >>)
           /\ \A lo, hi \in written :
                 RaisesOne(lo[1], hi[1])
                 => /\ Len(hi[2]) <= Len(lo[2])
                    /\ \A n \in DOMAIN hi[2] : \E m \in DOMAIN lo[2] : lo[2][m] = hi[2][n]

\* an input read to its end that gives one line under the default thresholds
\* and none with min_perc_coverage raised to 96
C10_Witness ==
    /\ pc = "done"
    /\ args = DefaultArgs
    /\ Len(out) = 1
    /\ WrittenUnder(yielded, [DefaultArgs EXCEPT !.min_perc_coverage = float(<<57, 54>>)],
                    << >>) = << >>

\* C11: a match is yielded only by an END marker line or by a gene-cover line
\* that follows its own gene-cover line, both read inside a block; when the
\* input ends inside a block with an active match, no record was yielded for
\* that match and the end of the input yields none.
C11_NoYieldAtEndOfInput ==
    LET B == BlockIds(lines)
    IN  /\ \A k \in DOMAIN yielded :
              /\ yielded[k].lineno \in DOMAIN lines
              /\ lines[yielded[k].lineno].kind \in {"END", "gene cover"}
              /\ InsideBlock(B, yielded[k].lineno)
              /\ yielded[k].match.lineno < yielded[k].lineno
        /\ (pc = "done" /\ in_record /\ genomic_match # None)
           => \A k \in DOMAIN yielded : yielded[k].match.lineno # genomic_match.lineno

\* the input has ended inside a block whose last match is still active, after
\* an earlier match of the block was yielded by that last match's gene-cover line
C11_Witness ==
    /\ pc = "done"
    /\ in_record
    /\ genomic_match # None
    /\ yielded # << >>
    /\ yielded[Len(yielded)].lineno = genomic_match.lineno

\* C12: every gene-cover line processed inside a block leaves the HSP mapping
\* empty when its match becomes active, whether or not a match was active
\* before: the mapping of the active match, and of every yielded record, holds
\* no HSP_ID line read before the gene-cover line of the match.
C12_GeneCoverResetsMapping ==
    /\ (pc = "read" /\ genomic_match # None)
       => \A id \in DOMAIN hsp_dict : hsp_dict[id].lineno > genomic_match.lineno
    /\ \A k \in DOMAIN yielded :
          \A h \in HspLinesOf(yielded[k]) : h > yielded[k].match.lineno

\* C13: a query-name line read inside a block yields nothing; with exactly 4
\* fields it sets query_name to the third field and the parser stays inside
\* the block; with any other field count the parser leaves the block and the
\* active match, the HSP mapping and the query name are discarded.
C13_QueryLineEffect ==
    [][(in_record /\ lines' # lines /\ lines'[Len(lines')].kind = "query")
       => LET fields == lines'[Len(lines')].fields
          IN  /\ yielded' = yielded
              /\ pc' = "read"
              /\ IF Len(fields) = 4
                 THEN query_name' = fields[3] /\ in_record'
                 ELSE /\ ~in_record'
                      /\ genomic_match' = None
                      /\ hsp_dict' = EmptyDict
                      /\ query_name' = ""]_vars

\* C14: the END marker line read inside a block yields the active match with
\* the HSP mapping accumulated so far, once, if a match is active, and yields
\* nothing otherwise; when the parser has finished with the line (at once, or
\* when it is resumed after the yield) it is outside every block with no
\* active match, an empty HSP mapping and an empty query name.
C14_EndMarkerEffect ==
    [][/\ (in_record /\ lines' # lines /\ lines'[Len(lines')].kind = "END")
          => IF genomic_match # None
             THEN /\ yielded' = Append(yielded, [match |-> genomic_match, hsps |-> hsp_dict,
                                                 lineno |-> Len(lines')])
                  /\ cur' = Record(genomic_match, hsp_dict)
                  /\ pc' = "yield"
             ELSE /\ yielded' = yielded
                  /\ pc' = "read"
                  /\ ~in_record' /\ genomic_match' = None
                  /\ hsp_dict' = EmptyDict /\ query_name' = ""
       /\ (pc = "resume" /\ lines[Len(lines)].kind = "END")
          => /\ yielded' = yielded
             /\ lines' = lines
             /\ pc' = "read"
             /\ ~in_record' /\ genomic_match' = None
             /\ hsp_dict' = EmptyDict /\ query_name' = ""]_vars

\* the parser has finished with an END marker line that yielded a match with a
\* non-empty mapping in a block that had set the query name
C14_Witness ==
    /\ pc = "read"
    /\ lines # << >>
    /\ lines[Len(lines)].kind = "END"
    /\ \E i \in DOMAIN lines : lines[i] = QueryLine4
    /\ yielded # << >>
    /\ yielded[Len(yielded)].lineno = Len(lines)
    /\ yielded[Len(yielded)].hsps # EmptyDict
    /\ ~in_record /\ genomic_match = None /\ hsp_dict = EmptyDict /\ query_name = ""

\* the HSP lines of record k: the lines that match HSP_RE between the
\* gene-cover line of the record and the line at which it was yielded
HspLinesBetween(k) ==
    {h \in DOMAIN lines :
        /\ yielded[k].match.lineno < h
        /\ h < yielded[k].lineno
        /\ lines[h].kind = "HSP"
        /\ Fits_HSP_RE(lines[h])}

\* C15: a well-formed HSP_ID line (a line that matches HSP_RE) with id h read
\* inside a block yields nothing and leaves the active match, the query name
\* and the block state unchanged; it sets the entry for h of the HSP mapping
\* to the fields of the line, the coordinates as integers and perc_id as a
\* float, replacing an earlier entry for h, and leaves the other entries
\* unchanged; the mapping of a record has as many entries as its HSP lines
\* have distinct ids.
C15_HspLineEffect ==
    [][/\ (/\ in_record
           /\ lines' # lines
           /\ lines'[Len(lines')].kind = "HSP"
           /\ Fits_HSP_RE(lines'[Len(lines')]))
          => LET line == lines'[Len(lines')]
             IN  /\ UNCHANGED <<genomic_match, query_name, in_record, yielded, pc, cur, out>>
                 /\ DOMAIN hsp_dict' = (DOMAIN hsp_dict) \cup {int(line.hsp_id)}
                 /\ hsp_dict'[int(line.hsp_id)].match_start = int(line.match_start)
                 /\ hsp_dict'[int(line.hsp_id)].match_end = int(line.match_end)
                 /\ hsp_dict'[int(line.hsp_id)].query_start = int(line.query_start)
                 /\ hsp_dict'[int(line.hsp_id)].query_end = int(line.query_end)
                 /\ hsp_dict'[int(line.hsp_id)].perc_id = float(line.perc_id)
                 /\ \A id \in (DOMAIN hsp_dict) \ {int(line.hsp_id)} :
                       hsp_dict'[id] = hsp_dict[id]
       /\ \A k \in DOMAIN yielded :
             len(yielded[k].hsps)
                = Cardinality({int(lines[h].hsp_id) : h \in HspLinesBetween(k)})]_vars

\* C16 (as stated): write_gff_line called on a record with an empty HSP
\* mapping raises the division error and writes nothing, whatever the
\* thresholds are; the driver loop does not catch it, so the run stops there:
\* nothing is written, read or yielded afterwards.
C16_EmptyMappingRaises ==
    [][/\ (pc = "yield" /\ len(cur.hsps) = 0)
          => /\ \A a \in Thresholds \cup ArgsSet :
                   LET r == write_gff_line(cur.match, cur.hsps, cur.match.query_name, out, a)
                   IN  r.raised = "ZeroDivisionError" /\ r.file = out
             /\ pc' = "crashed"
             /\ UNCHANGED <<out, lines, yielded, in_record, hsp_dict, genomic_match, query_name>>
       /\ pc # "crashed"]_vars

\* C16 (amended): write_gff_line called on a record with an empty HSP mapping
\* raises an error and writes nothing, whatever the thresholds are: the
\* division error when int() accepts the coordinates of the match, and
\* ValueError, raised by int() before the division, when a coordinate has
\* more than 4300 digits.  The driver loop catches neither, so the run stops
\* there: nothing is written, read or yielded afterwards.
C16_EmptyMappingStopsRun ==
    [][/\ (pc = "yield" /\ len(cur.hsps) = 0)
          => LET error == IF coordinates_accepted(cur.match)
                          THEN "ZeroDivisionError" ELSE "ValueError"
             IN  /\ \A a \in Thresholds \cup ArgsSet :
                       LET r == write_gff_line(cur.match, cur.hsps, cur.match.query_name,
                                               out, a)
                       IN  r.raised = error /\ r.file = out
                 /\ pc' = "crashed"
                 /\ exception' = error
                 /\ UNCHANGED <<out, lines, yielded, in_record, hsp_dict, genomic_match,
                                query_name>>
       /\ pc # "crashed"]_vars

\* the run has stopped on the division error after it wrote a line for an
\* earlier record
C16_Witness ==
    /\ pc = "crashed"
    /\ exception = "ZeroDivisionError"
    /\ len(cur.hsps) = 0
    /\ Len(out) = 1
    /\ Len(yielded) = 2

\* C17: parser and emitter alternate strictly.  After a yield the next step is
\* write_gff_line on the yielded record, with the parser's variables and the
\* input position untouched; only then does the parser finish the boundary
\* line, binding hsp_dict to a new empty dict, and only after that is another
\* line read.  A record handed to the emitter is never changed afterwards.
C17_StrictAlternation ==
    [][/\ pc = "yield"
          => /\ cur = Record(yielded[Len(yielded)].match, yielded[Len(yielded)].hsps)
             /\ yielded[Len(yielded)].lineno = Len(lines)
             /\ pc' \in {"resume", "crashed"}
             /\ out' = write_gff_line(cur.match, cur.hsps, cur.match.query_name, out, args).file
             /\ UNCHANGED <<lines, yielded, cur, in_record, hsp_dict, genomic_match, query_name>>
       /\ pc = "resume"
          => /\ pc' = "read"
             /\ hsp_dict' = EmptyDict
             /\ UNCHANGED <<lines, yielded, out>>
       /\ lines' # lines
          => /\ pc = "read"
             /\ Len(lines') = Len(lines) + 1
             /\ out' = out
       /\ \A k \in DOMAIN yielded : k \in DOMAIN yielded' /\ yielded'[k] = yielded[k]]_vars

\* after a record was yielded and emitted, later HSP_ID lines have filled a
\* new mapping and the record still holds the mapping it was yielded with
C17_Witness ==
    /\ pc = "read"
    /\ yielded # << >>
    /\ yielded[Len(yielded)].hsps # EmptyDict
    /\ hsp_dict # EmptyDict
    /\ \A id \in DOMAIN hsp_dict : hsp_dict[id].lineno > yielded[Len(yielded)].lineno
    /\ \A h \in HspLinesOf(yielded[Len(yielded)]) : h < yielded[Len(yielded)].lineno

\* C18: while the parser is outside every block, a line that does not begin
\* with the START marker changes nothing of the parser's state and yields
\* nothing; a line that begins with the START marker puts the parser inside a
\* block, yields nothing and changes no other variable.
C18_OutsideBlockFrame ==
    [][(~in_record /\ lines' # lines)
       => /\ in_record' = BeginsWithStart(lines'[Len(lines')])
          /\ UNCHANGED <<hsp_dict, genomic_match, query_name, yielded, out, pc, cur>>]_vars

\* an END marker was read outside every block, after a block was abandoned
\* with a match active, and the match is still there
C18_Witness ==
    /\ pc = "read"
    /\ ~in_record
    /\ lines # << >>
    /\ lines[Len(lines)].kind = "END"
    /\ BlockIds(lines)[Len(lines)] = 0
    /\ genomic_match # None
    /\ yielded = << >>

\* C19 (as stated): a line that begins with the START marker, read inside a
\* block, is ignored: it yields nothing and changes nothing of the parser's
\* state, so the active match, the HSP mapping and the query name carry over.
C19_StartInsideBlockIgnored ==
    [][(in_record /\ lines' # lines /\ BeginsWithStart(lines'[Len(lines')]))
       => UNCHANGED <<in_record, hsp_dict, genomic_match, query_name, yielded, out, pc, cur>>]_vars

\* C19 (amended): a line that begins with the START marker, read inside a
\* block, is ignored when it does not contain 'gene cover': it yields nothing
\* and changes nothing, so the active match, the HSP mapping and the query
\* name carry over.  When it contains 'gene cover' it is handled as a
\* gene-cover line: it yields the active match if there is one; otherwise its
\* own match becomes the active match, or the block is left when the line
\* fails the pattern.
C19_StartInsideBlockIgnoredUnlessGeneCover ==
    [][(in_record /\ lines' # lines /\ BeginsWithStart(lines'[Len(lines')]))
       => IF lines'[Len(lines')].kind # "gene cover"
          THEN UNCHANGED <<in_record, hsp_dict, genomic_match, query_name, yielded, out,
                           pc, cur>>
          ELSE IF genomic_match # None
          THEN /\ pc' = "yield"
               /\ cur' = Record(genomic_match, hsp_dict)
               /\ Len(yielded') = Len(yielded) + 1
          ELSE /\ IF Fits_GENOMIC_MATCH_RE(lines'[Len(lines')])
                  THEN /\ genomic_match'.lineno = Len(lines')
                       /\ genomic_match'.query_name = lines'[Len(lines')].query_name
                       /\ in_record'
                  ELSE genomic_match' = None /\ ~in_record'
               /\ UNCHANGED <<hsp_dict, query_name, yielded, out, pc, cur>>]_vars

\* a block was not closed before a second START marker line: the match and
\* the HSPs read before that line were yielded by a line read after it
C19_Witness ==
    \E k \in DOMAIN yielded : \E i \in DOMAIN lines :
        /\ lines[i] = StartLine
        /\ yielded[k].match.lineno < i
        /\ i < yielded[k].lineno
        /\ \A h \in HspLinesOf(yielded[k]) : h < i
        /\ yielded[k].hsps # EmptyDict

\* the well-formed gene-cover lines read inside blocks
MatchedGeneCoverLines ==
    LET B == BlockIds(lines)
    IN  {i \in DOMAIN lines : GoodGeneCover(i) /\ InsideBlock(B, i)}

====
